---- MODULE Spec2Model ----
(***************************************************************************)
(* News summarizer / bias detector: the serverless request handler (three  *)
(* deployed variants), the browser-side service wrappers, the App's state  *)
(* handlers and the LatestNews component, modelled as state machines.      *)
(*                                                                         *)
(* JSON values are abstracted to tagged records: what the code inspects    *)
(* (presence and truthiness of keys, the array-ness of a value, the tone   *)
(* classification) is kept, the free text is not.                          *)
(***************************************************************************)
EXTENDS Bags, Naturals, Sequences, FiniteSets, TLC

VARIABLES
    variant,    \* which deployed handler file serves the request
    apiKey,     \* process.env.API_KEY is set
    ai,         \* the module-level client handle: "null" | "client" | "none"
    pc,         \* position of the serverless process / of the service call
    event,      \* the HTTP event handed to the handler
    replies,    \* the external model's replies consumed by the invocation
    response,   \* what the handler resolved with
    trace,      \* what the invocation did: parsed, op, calls, outcome
    served,     \* invocations the process has handled
    instances,  \* GoogleGenAI clients the process has constructed
    call,       \* the browser-side service call under way
    result,     \* what the browser-side service call settled with
    sent,       \* the HTTP requests the service call has sent
    analysisResult,   \* App state, src/unnamed/part_003:13-19
    isLoading,
    isReconverting,
    error,
    history,
    activeHistoryId,
    language,
    pending,    \* the App's requests in flight, a bag: they settle in any order
    now,        \* Date.now()
    succeeded,  \* URLs whose submit completed successfully since the last clear
    resubmitted,      \* the step just taken was a submit of a URL in succeeded
    activeCategory,   \* LatestNews state, src/unnamed/part_001:13-20
    headlines,
    newsIsLoading,
    newsError,
    isFallback,
    translatedCategories,
    fetches,      \* the fetchLatestNews calls in flight
    translating,  \* the translateTexts calls in flight
    issued,       \* fetchLatestNews calls issued since the mount
    lastReturned  \* what the most recently issued fetch returned

serverVars == <<variant, apiKey, ai, pc, event, replies, response, trace, served, instances>>
clientVars == <<call, result, sent>>
appVars == <<analysisResult, isLoading, isReconverting, error, history, activeHistoryId,
             language, pending, now, succeeded, resubmitted>>
newsVars == <<activeCategory, headlines, newsIsLoading, newsError, isFallback,
              translatedCategories, fetches, translating, issued, lastReturned>>

-----------------------------------------------------------------------------
(* Bounds of the model *)

MaxHeadlines == 2      \* longest headline array the external model returns
MaxPending == 2        \* most requests the App has in flight at once
MaxInvocations == 2    \* most invocations one process serves
MaxClock == 2          \* last instant of the clock
MountTime == 1         \* the instant the App mounts
MaxFetches == 3        \* most fetchLatestNews calls LatestNews issues

-----------------------------------------------------------------------------
(* JSON values *)

Undefined == "<undefined>"          \* a string-valued key that is absent

JUndefined == [t |-> "undefined"]   \* key absent
JNull      == [t |-> "null"]        \* JSON null (falsy)
JInvalid   == [t |-> "invalid"]     \* text that JSON.parse rejects
JScalar    == [t |-> "scalar"]      \* a truthy scalar (number, non-empty string)

\* src/types.ts:27-33 (AnalysisResult)
AnalysisKeys ==
    {"articleTitle", "neutralSummary", "factOnlySummary", "eli10Summary", "biasAnalysis"}

\* src/types.ts:14 (TonePoint.classification)
Classifications == {"Positive", "Negative", "Neutral"}

\* the classification values the external model may produce
Tones == Classifications \cup {"Mixed"}

\* An object shaped (more or less) like an AnalysisResult: the keys present,
\* those present with a falsy value, and biasAnalysis.tone.classification.
AnalysisJson ==
    { [t |-> "analysis", keys |-> K, falsy |-> F, tone |-> c] :
        K \in SUBSET AnalysisKeys, F \in SUBSET AnalysisKeys, c \in Tones \cup {Undefined} }

WellFormedAnalysis(j) ==
    /\ j.falsy \subseteq j.keys
    /\ Cardinality(j.falsy) <= 1
    /\ (j.tone = Undefined) <=> ("biasAnalysis" \notin j.keys \ j.falsy)

AnalysisObjects == { j \in AnalysisJson : WellFormedAnalysis(j) }

\* src/types.ts:2-6 (NewsHeadline): which of the three keys are truthy
HeadlineItems == [title : BOOLEAN, source : BOOLEAN, url : BOOLEAN]

RECURSIVE SeqsUpTo(_, _)
SeqsUpTo(S, n) ==
    IF n = 0 THEN {<<>>}
    ELSE LET shorter == SeqsUpTo(S, n - 1)
         IN  shorter \cup { Append(s, x) : s \in { q \in shorter : Len(q) = n - 1 }, x \in S }

HeadlineArrays == { [t |-> "array", items |-> s] : s \in SeqsUpTo(HeadlineItems, MaxHeadlines) }

\* src/components/LatestNews / part_001:6 (englishCategories)
englishCategories == {"Political", "International", "Indian"}

\* a translation map: the keys it carries
TextMaps == { [t |-> "map", keys |-> K] : K \in {englishCategories, {"Political"}, {}} }

\* every JSON text the external model may answer with
ModelJson == AnalysisObjects \cup HeadlineArrays \cup TextMaps \cup {JNull, JScalar, JInvalid}

\* JavaScript truthiness of a value
IsTruthy(j) == j.t \notin {"undefined", "null", "invalid"}

\* j[k] is truthy (property access on a non-object yields undefined)
Has(j, k) == j.t = "analysis" /\ k \in j.keys \ j.falsy

-----------------------------------------------------------------------------
(* Errors, outcomes and the external model's replies *)

Err(m) == [isError |-> TRUE, message |-> m]
\* a thrown value that is not an Error instance
NonError == [isError |-> FALSE, message |-> Undefined]
NoErr == [isError |-> FALSE, message |-> ""]

Ok(v, n)    == [threw |-> FALSE, value |-> v, err |-> NoErr, calls |-> n]
Throw(e, n) == [threw |-> TRUE, value |-> JUndefined, err |-> e, calls |-> n]

UpstreamMessage == "upstream model failure"
TrimOfUndefined == "Cannot read properties of undefined (reading 'trim')"
NullProperty    == "Cannot read properties of null"
SyntaxMessage   == "Unexpected token in JSON"
NotAFunction    == "texts.reduce is not a function"

\* response.text as a string: an optional leading fence, the JSON text, an
\* optional trailing fence
Texts == [lead : {"none", "json", "plain"}, trail : BOOLEAN, json : ModelJson]

\* what one generateContent call may do: reject (with an Error, or with some
\* other value), resolve with no text at all, or resolve with a text
ModelReplies ==
    {[kind |-> "throw", err |-> Err(UpstreamMessage)], [kind |-> "throw", err |-> NonError],
     [kind |-> "notext"]}
    \cup { [kind |-> "text", text |-> x] : x \in Texts }

\* if (text.startsWith('```json')) text = text.substring(7, text.length - 3).trim();
\* else if (text.startsWith('```')) text = text.substring(3, text.length - 3).trim();
\* The last three characters go whether or not they are a fence: without a
\* trailing fence the JSON text loses its own tail and no longer parses.
StripFences(x) ==
    IF x.lead \in {"json", "plain"}
    THEN [lead |-> "none", trail |-> FALSE, json |-> IF x.trail THEN x.json ELSE JInvalid]
    ELSE x

\* JSON.parse of a (trimmed) text: a fence left in the text is a syntax error
JsonParse(x) == IF x.lead = "none" /\ ~x.trail THEN x.json ELSE JInvalid

\* parsedJson.articleTitle && parsedJson.neutralSummary && parsedJson.biasAnalysis
StructureCheck(parsed) ==
    Has(parsed, "articleTitle") /\ Has(parsed, "neutralSummary") /\ Has(parsed, "biasAnalysis")

\* a check that looks at the titles only
EveryHeadlineTitleOnly(items) == \A i \in 1..Len(items) : items[i].title

\* parsedJson.every(item => item.title && item.source && item.url)
EveryHeadline(items) ==
    \A i \in 1..Len(items) : items[i].title /\ items[i].source /\ items[i].url

\* the error JSON.parse or a property access on its result throws, if any
ParseError(parsed) ==
    IF parsed.t = "invalid" THEN Err(SyntaxMessage) ELSE Err(NullProperty)

-----------------------------------------------------------------------------
(* src/functions/analyze.ts: the four operations *)

\* an analyzeArticle that asks the model once more when its first attempt failed
analyzeArticleRetry(reply) ==
    IF reply.kind = "text" /\ StructureCheck(JsonParse(StripFences(reply.text)))
    THEN Ok(JsonParse(StripFences(reply.text)), 1)
    ELSE IF reply.kind = "throw" THEN Throw(reply.err, 2)
    ELSE Throw(Err("Could not parse the analysis from the AI model."), 2)

\* analyzeArticle, src/functions/analyze.ts:57-108
analyzeArticle(reply) ==
    IF reply.kind = "throw" THEN Throw(reply.err, 1)
    ELSE IF reply.kind = "notext" THEN Throw(Err(TrimOfUndefined), 1)
    ELSE LET parsed == JsonParse(StripFences(reply.text))
         IN  IF StructureCheck(parsed)
             THEN Ok(parsed, 1)
             \* a parse error, a null and the "Invalid JSON structure" error
             \* thrown inside the try all end in the catch of line 104
             ELSE Throw(Err("Could not parse the analysis from the AI model."), 1)

\* translateAnalysis, src/functions/analyze.ts:110-135
translateAnalysis(reply) ==
    IF reply.kind = "throw" THEN Throw(reply.err, 1)
    ELSE IF reply.kind = "notext" THEN Throw(Err(TrimOfUndefined), 1)
    ELSE LET parsed == JsonParse(reply.text)
         IN  IF parsed.t = "invalid" THEN Throw(Err(SyntaxMessage), 1) ELSE Ok(parsed, 1)

\* translateBatchTexts, src/functions/analyze.ts:137-164
translateBatchTexts(texts, reply) ==
    IF texts.t # "textarray" THEN Throw(Err(NotAFunction), 0)
    ELSE IF reply.kind = "throw" THEN Throw(reply.err, 1)
    ELSE IF reply.kind = "notext" THEN Throw(Err(TrimOfUndefined), 1)
    ELSE LET parsed == JsonParse(reply.text)
         IN  IF parsed.t = "invalid" THEN Throw(Err(SyntaxMessage), 1) ELSE Ok(parsed, 1)

\* fetchNews, src/functions/analyze.ts:166-200
fetchNews(reply) ==
    IF reply.kind = "throw" THEN Throw(reply.err, 1)
    ELSE IF reply.kind = "notext" THEN Throw(Err(TrimOfUndefined), 1)
    ELSE LET parsed == JsonParse(StripFences(reply.text))
         IN  IF parsed.t = "invalid" THEN Throw(Err(SyntaxMessage), 1)
             ELSE IF parsed.t = "array" /\ EveryHeadline(parsed.items) THEN Ok(parsed, 1)
             ELSE Throw(Err("Invalid JSON structure received from API for news fetch."), 1)

\* analyzeArticle of the schema-constrained variant, src/unnamed/part_000:57-94:
\* no fence stripping and no try/catch around the parse
analyzeArticleSchema(reply) ==
    IF reply.kind = "throw" THEN Throw(reply.err, 1)
    ELSE IF reply.kind = "notext" THEN Throw(Err(TrimOfUndefined), 1)
    ELSE LET parsed == JsonParse(reply.text)
         IN  IF parsed.t \in {"invalid", "null"} THEN Throw(ParseError(parsed), 1)
             ELSE IF StructureCheck(parsed) THEN Ok(parsed, 1)
             ELSE Throw(Err("Invalid JSON structure received from API for article analysis."), 1)

-----------------------------------------------------------------------------
(* src/types.ts: the proxy variant's lazily created client and operations *)

\* articleContent.trim().length < 150, src/types.ts:169
MinContentLength == 150

\* trimmed lengths of the article text the extraction call may return
ContentLengths == {0, MinContentLength - 1, MinContentLength, MinContentLength + 1}

ContentReplies ==
    {[kind |-> "throw", err |-> Err(UpstreamMessage)], [kind |-> "throw", err |-> NonError],
     [kind |-> "notext"]}
    \cup { [kind |-> "content", len |-> n] : n \in ContentLengths }

ApiKeyMessage ==
    "API_KEY environment variable not set. Please ensure it is configured in Netlify."

\* a getAiClient that never looks at the handle it already holds
getAiClientFresh(handle, key) ==
    IF ~key THEN [threw |-> TRUE, ai |-> handle, created |-> FALSE]
    ELSE [threw |-> FALSE, ai |-> "client", created |-> TRUE]

\* getAiClient, src/types.ts:85-94: the handle after the call, and whether it threw
getAiClient(handle, key) ==
    IF handle # "null" THEN [threw |-> FALSE, ai |-> handle, created |-> FALSE]
    ELSE IF ~key THEN [threw |-> TRUE, ai |-> handle, created |-> FALSE]
    ELSE [threw |-> FALSE, ai |-> "client", created |-> TRUE]

\* an operation of the proxy: its outcome and the handle it leaves behind
WithAi(out, handle) == [out |-> out, ai |-> handle]

\* getArticleContent, src/types.ts:141-163: [threw, err, content, calls]
getArticleContent(creply) ==
    IF creply.kind = "throw"
    THEN [threw |-> TRUE, err |-> Err("Failed to retrieve article content from the URL."),
          content |-> creply, calls |-> 1]
    ELSE [threw |-> FALSE, err |-> NoErr, content |-> creply, calls |-> 1]

\* a content check that also turns away a text of exactly the minimum length
InsufficientContentInclusive(content) ==
    content.kind = "notext" \/ content.len = 0 \/ content.len <= MinContentLength

\* !articleContent || articleContent.trim().length < 150
InsufficientContent(content) ==
    content.kind = "notext" \/ content.len = 0 \/ content.len < MinContentLength

InsufficientMessage ==
    "Could not retrieve sufficient article content from the provided URL. It might be behind a paywall or inaccessible."

\* the catch blocks that rewrap an error under a prefix
Rewrap(prefix, e) ==
    IF e.isError THEN Err(prefix \o ": " \o e.message) ELSE Err(prefix \o ".")

\* analyzeNewsArticle, src/types.ts:166-223
analyzeNewsArticle(handle, key, creply, reply) ==
    LET c1 == getAiClient(handle, key)
        got == getArticleContent(creply)
    IN  IF c1.threw THEN WithAi(Throw(Err(ApiKeyMessage), 0), c1.ai)
        ELSE IF got.threw THEN WithAi(Throw(got.err, 1), c1.ai)
        ELSE IF InsufficientContent(got.content)
        THEN WithAi(Throw(Err(InsufficientMessage), 1), c1.ai)
        ELSE LET inner ==
                     IF reply.kind = "throw" THEN Throw(reply.err, 2)
                     ELSE IF reply.kind = "notext" THEN Throw(Err(TrimOfUndefined), 2)
                     ELSE LET parsed == JsonParse(reply.text)
                          IN  IF parsed.t \in {"invalid", "null"}
                              THEN Throw(ParseError(parsed), 2)
                              ELSE IF StructureCheck(parsed) THEN Ok(parsed, 2)
                              ELSE Throw(Err("Invalid JSON structure received from AI for article analysis."), 2)
             IN  WithAi(IF inner.threw
                        THEN Throw(Rewrap("Failed to get analysis from the AI model", inner.err), 2)
                        ELSE inner,
                        c1.ai)

\* translateAnalysisResult, src/types.ts:225-257
translateAnalysisResult(handle, key, reply) ==
    LET c1 == getAiClient(handle, key)
        inner ==
            IF reply.kind = "throw" THEN Throw(reply.err, 1)
            ELSE IF reply.kind = "notext" THEN Throw(Err(TrimOfUndefined), 1)
            ELSE LET parsed == JsonParse(reply.text)
                 IN  IF parsed.t = "invalid" THEN Throw(Err(SyntaxMessage), 1) ELSE Ok(parsed, 1)
    IN  IF c1.threw THEN WithAi(Throw(Err(ApiKeyMessage), 0), c1.ai)
        ELSE WithAi(IF inner.threw
                    THEN Throw(Rewrap("Failed to translate the analysis", inner.err), 1)
                    ELSE inner,
                    c1.ai)

\* translateTexts, src/types.ts:259-291
translateTextsProxy(handle, key, texts, reply) ==
    LET c1 == getAiClient(handle, key)
        inner ==
            IF reply.kind = "throw" THEN Throw(reply.err, 1)
            ELSE IF reply.kind = "notext" THEN Throw(Err(TrimOfUndefined), 1)
            ELSE LET parsed == JsonParse(reply.text)
                 IN  IF parsed.t = "invalid" THEN Throw(Err(SyntaxMessage), 1) ELSE Ok(parsed, 1)
    IN  IF c1.threw THEN WithAi(Throw(Err(ApiKeyMessage), 0), c1.ai)
        ELSE IF texts.t # "textarray" THEN WithAi(Throw(Err(NotAFunction), 0), c1.ai)
        ELSE WithAi(IF inner.threw THEN Throw(Err("Failed to translate texts."), 1) ELSE inner,
                    c1.ai)

\* the value fetchLatestNews resolves with: { headlines, source }
Tagged(news, source) == [t |-> "tagged", headlines |-> news, source |-> source]

\* fetchLatestNews, src/types.ts:293-334
fetchLatestNewsProxy(handle, key, reply) ==
    LET c1 == getAiClient(handle, key)
        parsed == JsonParse(StripFences(reply.text))
    IN  IF c1.threw THEN WithAi(Throw(Err(ApiKeyMessage), 0), c1.ai)
        ELSE IF /\ reply.kind = "text"
                /\ parsed.t = "array"
                /\ EveryHeadline(parsed.items)
        THEN WithAi(Ok(Tagged(parsed, "live"), 1), c1.ai)
        ELSE WithAi(Throw(Err("Failed to fetch latest news."), 1), c1.ai)

-----------------------------------------------------------------------------
(* HTTP events *)

SampleUrl == "https://example.com/news/article"

\* an analysis a client submits for translation
SampleAnalysis == [t |-> "analysis", keys |-> AnalysisKeys, falsy |-> {}, tone |-> "Negative"]

SampleTexts == [t |-> "textarray", texts |-> englishCategories]

StringValues(v) == {Undefined, "", v}     \* absent, falsy, truthy

NoFields ==
    [articleUrl |-> Undefined, language |-> Undefined, targetLanguage |-> Undefined,
     category |-> Undefined, analysis |-> JUndefined, texts |-> JUndefined]

\* the parameter sets the four requests carry, each key absent, falsy or truthy
RequestFields ==
    { [NoFields EXCEPT !.articleUrl = u, !.language = l] :
        u \in StringValues(SampleUrl), l \in StringValues("Hindi") }
    \cup { [NoFields EXCEPT !.analysis = a, !.targetLanguage = l] :
        a \in {JUndefined, JNull, SampleAnalysis}, l \in StringValues("Hindi") }
    \cup { [NoFields EXCEPT !.texts = x, !.targetLanguage = l] :
        x \in {JUndefined, JNull, JScalar, SampleTexts}, l \in StringValues("Hindi") }
    \cup { [NoFields EXCEPT !.category = c] : c \in StringValues("Political") }

\* src/functions/analyze.ts:217-235 and src/types.ts:352-373
FunctionActions == {"analyze", "translate", "translateTexts", "fetchNews"}
ProxyActions ==
    {"analyzeNewsArticle", "translateAnalysisResult", "translateTexts", "fetchLatestNews"}
Actions == FunctionActions \cup ProxyActions \cup {Undefined, "", "bogus"}

NoPayload == [t |-> "undefined"]

\* event.body: absent, not JSON, the JSON text null, or a JSON object carrying
\* its parameters at the top level or under "payload"
Bodies ==
    {[t |-> "empty"], [t |-> "malformed"], [t |-> "null"]}
    \cup { [t |-> "object", action |-> a, top |-> f, payload |-> NoPayload] :
            a \in Actions, f \in RequestFields }
    \cup { [t |-> "object", action |-> a, top |-> NoFields, payload |-> [t |-> "object", f |-> f]] :
            a \in Actions, f \in RequestFields }

\* the methods a request may carry
Methods == {"POST", "GET", "DELETE"}

Events == [httpMethod : Methods, body : Bodies]

\* JSON.parse(event.body || '{}') when it returns an object
BodyObject(body) ==
    IF body.t = "empty"
    THEN [t |-> "object", action |-> Undefined, top |-> NoFields, payload |-> NoPayload]
    ELSE body

\* payload?.key
PayloadFields(obj) == IF obj.payload.t = "object" THEN obj.payload.f ELSE NoFields

TruthyString(x) == x \notin {Undefined, ""}

\* a message that keeps the action value to itself
ActionTextHidden(a) == "(hidden)"

\* `${action}` in a template string
ActionText(a) == IF a = Undefined THEN "undefined" ELSE a

-----------------------------------------------------------------------------
(* The handlers *)

Functions == "src/functions/analyze.ts"
Schema    == "src/unnamed/part_000"
Proxy     == "src/types.ts"
Variants  == {Functions, Schema, Proxy}

JsonBody(v)  == [kind |-> "json", value |-> v]
ErrorBody(m) == [kind |-> "json", value |-> [t |-> "error", error |-> m]]
TextBody(x)  == [kind |-> "text", text |-> x]

\* if (!articleUrl || !language), src/functions/analyze.ts:219, src/types.ts:353
MissingAnalyzeParams(f) == ~TruthyString(f.articleUrl) \/ ~TruthyString(f.language)

\* if (!analysis || !targetLanguage), src/functions/analyze.ts:225, src/types.ts:360
MissingTranslateParams(f) == ~IsTruthy(f.analysis) \/ ~TruthyString(f.targetLanguage)

\* the check with && in place of ||
MissingTextsParamsBoth(f) == ~IsTruthy(f.texts) /\ ~TruthyString(f.targetLanguage)

\* if (!texts || !lang), src/functions/analyze.ts:231, src/types.ts:367
MissingTextsParams(f) == ~IsTruthy(f.texts) \/ ~TruthyString(f.targetLanguage)

\* if (!category), src/functions/analyze.ts:237, src/types.ts:374
MissingCategoryParam(f) == ~TruthyString(f.category)

Dispatched(op, out, handle) == [parsed |-> TRUE, op |-> op, out |-> out, ai |-> handle]

\* the try block of handler, src/functions/analyze.ts:211-249 and
\* src/unnamed/part_000:197-235
TryFunctions(v, ev, handle, reply) ==
    IF ev.body.t = "malformed" THEN Dispatched("none", Throw(Err(SyntaxMessage), 0), handle)
    ELSE IF ev.body.t = "null" THEN Dispatched("none", Throw(Err(NullProperty), 0), handle)
    ELSE LET body == BodyObject(ev.body)
             f    == body.top
         IN  CASE body.action = "analyze" ->
                    IF MissingAnalyzeParams(f)
                    THEN Dispatched("none", Throw(Err("Missing parameters for 'analyze' action"), 0), handle)
                    ELSE Dispatched("analyze",
                                    IF v = Functions THEN analyzeArticle(reply)
                                    ELSE analyzeArticleSchema(reply),
                                    handle)
               [] body.action = "translate" ->
                    IF MissingTranslateParams(f)
                    THEN Dispatched("none", Throw(Err("Missing parameters for 'translate' action"), 0), handle)
                    ELSE Dispatched("translate", translateAnalysis(reply), handle)
               [] body.action = "translateTexts" ->
                    IF MissingTextsParams(f)
                    THEN Dispatched("none", Throw(Err("Missing parameters for 'translateTexts' action"), 0), handle)
                    ELSE Dispatched("translateTexts", translateBatchTexts(f.texts, reply), handle)
               [] body.action = "fetchNews" ->
                    IF MissingCategoryParam(f)
                    THEN Dispatched("none", Throw(Err("Missing parameters for 'fetchNews' action"), 0), handle)
                    ELSE Dispatched("fetchNews", fetchNews(reply), handle)
               [] OTHER ->
                    Dispatched("none",
                               Throw(Err("Invalid action specified: " \o ActionText(body.action)), 0),
                               handle)

\* the try block of handler, src/types.ts:342-388
TryProxy(ev, handle, key, creply, reply) ==
    IF ev.body.t = "malformed" THEN Dispatched("none", Throw(Err(SyntaxMessage), 0), handle)
    ELSE IF ev.body.t = "null" THEN Dispatched("none", Throw(Err(NullProperty), 0), handle)
    ELSE LET body == BodyObject(ev.body)
             f    == PayloadFields(body)
             Ran(op, r) == Dispatched(op, r.out, r.ai)
         IN  CASE ~TruthyString(body.action) ->
                    Dispatched("none", Throw(Err("Missing action"), 0), handle)
               [] body.action = "analyzeNewsArticle" ->
                    IF MissingAnalyzeParams(f)
                    THEN Dispatched("none", Throw(Err("Missing articleUrl or language for analyzeNewsArticle"), 0), handle)
                    ELSE Ran("analyze", analyzeNewsArticle(handle, key, creply, reply))
               [] body.action = "translateAnalysisResult" ->
                    IF MissingTranslateParams(f)
                    THEN Dispatched("none", Throw(Err("Missing analysis or targetLanguage for translateAnalysisResult"), 0), handle)
                    ELSE Ran("translate", translateAnalysisResult(handle, key, reply))
               [] body.action = "translateTexts" ->
                    IF MissingTextsParams(f)
                    THEN Dispatched("none", Throw(Err("Missing texts or targetLanguage for translateTexts"), 0), handle)
                    ELSE Ran("translateTexts", translateTextsProxy(handle, key, f.texts, reply))
               [] body.action = "fetchLatestNews" ->
                    IF MissingCategoryParam(f)
                    THEN Dispatched("none", Throw(Err("Missing category for fetchLatestNews"), 0), handle)
                    ELSE Ran("fetchNews", fetchLatestNewsProxy(handle, key, reply))
               [] OTHER ->
                    Dispatched("none", Throw(Err("Unknown action: " \o body.action), 0), handle)

\* the catch block forgetting its status code
RespondFunctionsNoStatus(out) ==
    [statusCode |-> 200,
     body |-> IF ~out.threw THEN JsonBody(out.value)
              ELSE ErrorBody(IF out.err.isError THEN out.err.message
                             ELSE "An unknown server error occurred.")]

\* the return of the try block and the catch block,
\* src/functions/analyze.ts:245-257, src/unnamed/part_000:231-243
RespondFunctions(out) ==
    IF ~out.threw THEN [statusCode |-> 200, body |-> JsonBody(out.value)]
    ELSE [statusCode |-> 500,
          body |-> ErrorBody(IF out.err.isError THEN out.err.message
                             ELSE "An unknown server error occurred.")]

\* src/types.ts:384-399
RespondProxy(out) ==
    IF ~out.threw THEN [statusCode |-> 200, body |-> JsonBody(out.value)]
    ELSE [statusCode |-> 500,
          body |-> ErrorBody(IF out.err.isError THEN out.err.message
                             ELSE "An unexpected server error occurred.")]

\* what an invocation that did nothing leaves in the trace
Untouched(handle) == [parsed |-> FALSE, op |-> "none", out |-> Ok(JUndefined, 0), ai |-> handle]

\* handler, src/functions/analyze.ts:205-258 and src/unnamed/part_000:191-244:
\* the response and what the invocation did
handlerFunctions(v, ev, handle, reply) ==
    IF ev.httpMethod # "POST"
    THEN [response |-> [statusCode |-> 405, body |-> ErrorBody("Method Not Allowed")],
          did |-> Untouched(handle)]
    ELSE LET did == TryFunctions(v, ev, handle, reply)
         IN  [response |-> RespondFunctions(did.out), did |-> did]

\* the method check made after the body was handled
handlerProxyLateCheck(ev, handle, key, creply, reply) ==
    LET did == TryProxy(ev, handle, key, creply, reply)
    IN  IF ev.httpMethod # "POST"
        THEN [response |-> [statusCode |-> 405, body |-> TextBody("Method Not Allowed")],
              did |-> did]
        ELSE [response |-> RespondProxy(did.out), did |-> did]

\* handler, src/types.ts:337-400
handlerProxy(ev, handle, key, creply, reply) ==
    IF ev.httpMethod # "POST"
    THEN [response |-> [statusCode |-> 405, body |-> TextBody("Method Not Allowed")],
          did |-> Untouched(handle)]
    ELSE LET did == TryProxy(ev, handle, key, creply, reply)
         IN  [response |-> RespondProxy(did.out), did |-> did]

-----------------------------------------------------------------------------
(* The serverless process: cold start, then one invocation of the handler *)

NoReply == [kind |-> "notext"]
NoResponse == [statusCode |-> 0, body |-> TextBody("")]
NoCall == [op |-> "none"]
NoResult == [settled |-> "pending"]

ClientIdle == call = NoCall /\ result = NoResult /\ sent = <<>>

Null == "<null>"      \* a null string-valued state

\* englishCategories.reduce((acc, cat) => ({ ...acc, [cat]: cat }), {}),
\* src/unnamed/part_001:19: the categories that have a name, and its language
EnglishNames == [keys |-> englishCategories, language |-> "English"]

\* useState<NewsHeadline[]>([]), src/unnamed/part_001:14
NoHeadlines == [items |-> <<>>, source |-> "none", id |-> 0]

\* the App as it is before it mounts
AppIdle ==
    /\ analysisResult = JNull
    /\ isLoading = FALSE
    /\ isReconverting = FALSE
    /\ error = Null
    /\ history = <<>>
    /\ activeHistoryId = Null
    /\ language = "English"
    /\ pending = EmptyBag
    /\ now = 0
    /\ succeeded = {}
    /\ resubmitted = FALSE

\* LatestNews as useState leaves it, src/unnamed/part_001:13-20
NewsIdle ==
    /\ activeCategory = "Political"
    /\ headlines = NoHeadlines
    /\ newsIsLoading = TRUE
    /\ newsError = Null
    /\ isFallback = FALSE
    /\ translatedCategories = EnglishNames
    /\ fetches = {}
    /\ translating = {}
    /\ issued = 0
    /\ lastReturned = NoHeadlines

InitServer ==
    /\ variant \in Variants
    /\ apiKey \in BOOLEAN
    /\ ai = "null"
    /\ pc = "cold"
    /\ event \in Events
    /\ replies = <<>>
    /\ response = NoResponse
    /\ trace = Untouched("null")
    /\ served = 0
    /\ instances = 0
    /\ ClientIdle
    /\ AppIdle
    /\ NewsIdle

\* module load: src/functions/analyze.ts:5-9 and src/unnamed/part_000:5-9 throw
\* without the key; src/types.ts:83 only declares the handle
ColdStart ==
    /\ pc = "cold"
    /\ IF variant = Proxy
       THEN pc' = "ready" /\ ai' = "null" /\ instances' = instances
       ELSE IF apiKey THEN pc' = "ready" /\ ai' = "client" /\ instances' = instances + 1
       ELSE pc' = "fatal" /\ ai' = "null" /\ instances' = instances
    /\ UNCHANGED <<variant, apiKey, event, replies, response, trace, served>>
    /\ UNCHANGED clientVars
    /\ UNCHANGED appVars
    /\ UNCHANGED newsVars

\* the replies an invocation consumed, in order
Consumed(calls, all) == SubSeq(all, 1, IF calls < Len(all) THEN calls ELSE Len(all))

InvokeFunctions ==
    /\ pc = "ready"
    /\ variant \in {Functions, Schema}
    /\ LET probe == handlerFunctions(variant, event, ai, NoReply)
       IN  \E reply \in (IF probe.did.out.calls = 0 THEN {NoReply} ELSE ModelReplies) :
             LET run == handlerFunctions(variant, event, ai, reply)
             IN  /\ response' = run.response
                 /\ trace' = run.did
                 /\ ai' = run.did.ai
                 /\ replies' = Consumed(run.did.out.calls, <<reply>>)
    /\ pc' = "done"
    /\ served' = served + 1
    /\ UNCHANGED <<variant, apiKey, event, instances>>
    /\ UNCHANGED clientVars
    /\ UNCHANGED appVars
    /\ UNCHANGED newsVars

InvokeProxy ==
    /\ pc = "ready"
    /\ variant = Proxy
    /\ LET probe == handlerProxy(event, ai, apiKey, NoReply, NoReply)
           twoStep == probe.did.op = "analyze"
       IN  \E creply \in (IF twoStep /\ probe.did.out.calls > 0 THEN ContentReplies ELSE {NoReply}) :
             LET probe2 == handlerProxy(event, ai, apiKey, creply, NoReply)
                 needed == IF twoStep THEN probe2.did.out.calls = 2 ELSE probe.did.out.calls = 1
             IN  \E reply \in (IF needed THEN ModelReplies ELSE {NoReply}) :
                   LET run == handlerProxy(event, ai, apiKey, creply, reply)
                   IN  /\ response' = run.response
                       /\ trace' = run.did
                       /\ ai' = run.did.ai
                       /\ replies' = Consumed(run.did.out.calls,
                                              IF twoStep THEN <<creply, reply>> ELSE <<reply>>)
                       \* every operation dispatched starts with getAiClient()
                       /\ instances' = IF run.did.op # "none" /\ getAiClient(ai, apiKey).created
                                       THEN instances + 1 ELSE instances
    /\ pc' = "done"
    /\ served' = served + 1
    /\ UNCHANGED <<variant, apiKey, event>>
    /\ UNCHANGED clientVars
    /\ UNCHANGED appVars
    /\ UNCHANGED newsVars

\* the invocation is over; the process stays warm, its module state with it
Return ==
    /\ pc = "done"
    /\ served < MaxInvocations
    /\ pc' = "warm"
    /\ event' = [httpMethod |-> "POST", body |-> [t |-> "empty"]]
    /\ replies' = <<>>
    /\ response' = NoResponse
    /\ trace' = Untouched(ai)
    /\ UNCHANGED <<variant, apiKey, ai, served, instances>>
    /\ UNCHANGED clientVars
    /\ UNCHANGED appVars
    /\ UNCHANGED newsVars

\* the warm process is handed its next event
Receive ==
    /\ pc = "warm"
    /\ event' \in Events
    /\ pc' = "ready"
    /\ UNCHANGED <<variant, apiKey, ai, replies, response, trace, served, instances>>
    /\ UNCHANGED clientVars
    /\ UNCHANGED appVars
    /\ UNCHANGED newsVars

NextServer == ColdStart \/ InvokeFunctions \/ InvokeProxy \/ Return \/ Receive

vars == <<variant, apiKey, ai, pc, event, replies, response, trace, served, instances,
          call, result, sent,
          analysisResult, isLoading, isReconverting, error, history, activeHistoryId,
          language, pending, now, succeeded, resubmitted,
          activeCategory, headlines, newsIsLoading, newsError, isFallback,
          translatedCategories, fetches, translating, issued, lastReturned>>

SpecServer == InitServer /\ [][NextServer]_vars

-----------------------------------------------------------------------------
(* src/services/geminiService.ts: the browser-side service wrappers *)

Direct == "src/services/geminiService.ts"     \* the direct client-side variant

EmptyArray == [t |-> "array", items |-> <<>>]

FullHeadline == [title |-> TRUE, source |-> TRUE, url |-> TRUE]

\* mockNews, src/services/geminiService.ts:346-352
MockNews ==
    [t |-> "array",
     items |-> <<FullHeadline, FullHeadline, FullHeadline, FullHeadline, FullHeadline>>]

\* what fetch('/api/analyze') may do: reach the handler, fail on the network,
\* or be answered by the platform with a page that is not JSON
Transports == {"handler", "network", "gateway"}

GatewayResponse == [statusCode |-> 502, body |-> TextBody("Bad Gateway")]

\* the request apiCall sends, src/services/geminiService.ts:4-10
ApiEvent(action, params) ==
    [httpMethod |-> "POST",
     body |-> [t |-> "object", action |-> action, top |-> params, payload |-> NoPayload]]

RequestFailedMessage(status) ==
    IF status = 500 THEN "Request failed with status 500"
    ELSE IF status = 405 THEN "Request failed with status 405"
    ELSE "Request failed with status 502"

\* an apiCall that never reads the error text of the response body
apiCallStatusOnly(transport, resp) ==
    IF transport = "network" THEN Throw(Err("Failed to fetch"), 0)
    ELSE IF resp.statusCode # 200 THEN Throw(Err(RequestFailedMessage(resp.statusCode)), 0)
    ELSE IF resp.body.kind = "json" THEN Ok(resp.body.value, 0)
    ELSE Throw(Err(SyntaxMessage), 0)

\* apiCall once fetch has settled, src/services/geminiService.ts:12-16
apiCall(transport, resp) ==
    IF transport = "network" THEN Throw(Err("Failed to fetch"), 0)
    ELSE IF resp.statusCode # 200
    THEN LET errorData ==
                 IF resp.body.kind = "json" THEN resp.body.value
                 ELSE [t |-> "error", error |-> "An unknown server error occurred"]
             message ==
                 IF errorData.t = "error" /\ errorData.error # "" THEN errorData.error
                 ELSE RequestFailedMessage(resp.statusCode)
         IN  Throw(Err(message), 0)
    ELSE IF resp.body.kind = "json" THEN Ok(resp.body.value, 0)
    ELSE Throw(Err(SyntaxMessage), 0)

\* analyzeNewsArticle, src/services/geminiService.ts:19-29
analyzeNewsArticleApi(transport, resp) ==
    LET r == apiCall(transport, resp)
    IN  IF r.threw THEN Throw(Rewrap("Failed to get analysis from the AI model", r.err), 0) ELSE r

\* translateAnalysisResult, src/services/geminiService.ts:31-41
translateAnalysisResultApi(transport, resp) ==
    LET r == apiCall(transport, resp)
    IN  IF r.threw THEN Throw(Rewrap("Failed to translate the analysis", r.err), 0) ELSE r

\* texts.reduce((acc, text) => { acc[text] = text; ... }): the identity map
IdentityMap(texts) == [t |-> "map", keys |-> texts.texts]

\* translateTexts, src/services/geminiService.ts:43-54
translateTextsApi(texts, transport, resp) ==
    LET r == apiCall(transport, resp)
    IN  IF r.threw THEN Ok(IdentityMap(texts), 0) ELSE r

\* fetchLatestNews, src/services/geminiService.ts:56-69
fetchLatestNewsApi(transport, resp) ==
    LET r == apiCall(transport, resp)
    IN  IF r.threw THEN Ok(EmptyArray, 0)
        ELSE IF r.value.t = "array" THEN r
        ELSE Ok(EmptyArray, 0)

\* the message of getAiClient, src/services/geminiService.ts:89
DirectApiKeyMessage ==
    "API_KEY environment variable not set. Please ensure it is available in your environment."

\* translateTexts, src/services/geminiService.ts:269-305
translateTextsDirect(handle, key, texts, reply) ==
    LET c1 == getAiClient(handle, key)
        parsed == JsonParse(reply.text)
    IN  IF c1.threw THEN WithAi(Throw(Err(DirectApiKeyMessage), 0), c1.ai)
        ELSE IF reply.kind = "text" /\ parsed.t # "invalid" THEN WithAi(Ok(parsed, 1), c1.ai)
        ELSE WithAi(Ok(IdentityMap(texts), 1), c1.ai)

\* fetchLatestNews, src/services/geminiService.ts:307-355
fetchLatestNewsDirect(handle, key, reply) ==
    LET c1 == getAiClient(handle, key)
        parsed == JsonParse(StripFences(reply.text))
    IN  IF c1.threw THEN WithAi(Throw(Err(DirectApiKeyMessage), 0), c1.ai)
        ELSE IF /\ reply.kind = "text"
                /\ parsed.t = "array"
                /\ EveryHeadline(parsed.items)
        THEN WithAi(Ok(Tagged(parsed, "live"), 1), c1.ai)
        ELSE WithAi(Ok(Tagged(MockNews, "mock"), 1), c1.ai)

\* getNews of LatestNews, src/unnamed/part_001:41-68, once fetchLatestNews has
\* settled: what the component holds when the fetch is over. The component
\* destructures { headlines, source }; on a bare array headlines is undefined
\* and news.length throws into the catch of line 60.
getNews(res) ==
    IF res.settled = "rejected" \/ res.value.t # "tagged"
    THEN [headlines |-> <<>>, error |-> "An error occurred while fetching news.",
          isFallback |-> FALSE]
    ELSE IF Len(res.value.headlines.items) = 0
    THEN [headlines |-> <<>>, error |-> "Could not fetch recent political news at this time.",
          isFallback |-> FALSE]
    ELSE [headlines |-> res.value.headlines.items, error |-> Null,
          isFallback |-> (res.value.source = "mock")]

-----------------------------------------------------------------------------
(* One service call made by the browser *)

ServiceOps == {"analyzeNewsArticle", "translateAnalysisResult", "translateTexts", "fetchLatestNews"}

\* the action name and parameters each wrapper hands to apiCall
ApiAction(op) ==
    CASE op = "analyzeNewsArticle" -> "analyze"
      [] op = "translateAnalysisResult" -> "translate"
      [] op = "translateTexts" -> "translateTexts"
      [] op = "fetchLatestNews" -> "fetchNews"

ApiParams(op) ==
    CASE op = "analyzeNewsArticle" -> [NoFields EXCEPT !.articleUrl = SampleUrl, !.language = "Hindi"]
      [] op = "translateAnalysisResult" ->
            [NoFields EXCEPT !.analysis = SampleAnalysis, !.targetLanguage = "Hindi"]
      [] op = "translateTexts" -> [NoFields EXCEPT !.texts = SampleTexts, !.targetLanguage = "Hindi"]
      [] op = "fetchLatestNews" -> [NoFields EXCEPT !.category = "Political"]

Settled(out) ==
    IF out.threw THEN [settled |-> "rejected", err |-> out.err]
    ELSE [settled |-> "resolved", value |-> out.value]

\* the wrappers over /api/analyze are served by the function handlers, which
\* exist only when the module loaded with its key; the direct variant runs in
\* the browser with its own lazily created client
InitClient ==
    /\ call \in [op : ServiceOps, service : {"api"}]
                \cup [op : {"translateTexts", "fetchLatestNews"}, service : {"direct"}]
    /\ IF call.service = "api"
       THEN variant \in {Functions, Schema} /\ apiKey = TRUE /\ ai = "client"
       ELSE variant = Direct /\ apiKey \in BOOLEAN /\ ai = "null"
    /\ pc = "calling"
    /\ event = ApiEvent(Undefined, NoFields)
    /\ replies = <<>>
    /\ response = NoResponse
    /\ trace = Untouched(ai)
    /\ served = 0
    /\ instances = IF ai = "client" THEN 1 ELSE 0
    /\ result = NoResult
    /\ sent = <<>>
    /\ AppIdle
    /\ NewsIdle

\* a wrapper of lines 19-69 runs to its end: one request, one response
CallApi ==
    /\ pc = "calling"
    /\ call.service = "api"
    /\ \E transport \in Transports :
         \E reply \in (IF transport = "handler" THEN ModelReplies ELSE {NoReply}) :
           LET ev   == ApiEvent(ApiAction(call.op), ApiParams(call.op))
               run  == handlerFunctions(variant, ev, ai, reply)
               resp == IF transport = "handler" THEN run.response
                       ELSE IF transport = "gateway" THEN GatewayResponse
                       ELSE NoResponse
               out  == CASE call.op = "analyzeNewsArticle" -> analyzeNewsArticleApi(transport, resp)
                         [] call.op = "translateAnalysisResult" -> translateAnalysisResultApi(transport, resp)
                         [] call.op = "translateTexts" -> translateTextsApi(SampleTexts, transport, resp)
                         [] call.op = "fetchLatestNews" -> fetchLatestNewsApi(transport, resp)
           IN  /\ event' = ev
               /\ response' = resp
               /\ trace' = IF transport = "handler" THEN run.did ELSE trace
               /\ replies' = IF transport = "handler" THEN Consumed(run.did.out.calls, <<reply>>)
                             ELSE <<>>
               /\ result' = Settled(out)
               /\ sent' = Append(sent, ev)
    /\ pc' = "settled"
    /\ UNCHANGED <<variant, apiKey, ai, call, served, instances>>
    /\ UNCHANGED appVars
    /\ UNCHANGED newsVars

\* a wrapper of lines 269-355 runs to its end against the model itself
CallDirect ==
    /\ pc = "calling"
    /\ call.service = "direct"
    /\ \E reply \in (IF apiKey THEN ModelReplies ELSE {NoReply}) :
         LET run == IF call.op = "translateTexts"
                    THEN translateTextsDirect(ai, apiKey, SampleTexts, reply)
                    ELSE fetchLatestNewsDirect(ai, apiKey, reply)
         IN  /\ ai' = run.ai
             /\ trace' = Dispatched(call.op, run.out, run.ai)
             /\ replies' = Consumed(run.out.calls, <<reply>>)
             /\ result' = Settled(run.out)
             /\ instances' = IF getAiClient(ai, apiKey).created THEN instances + 1 ELSE instances
    /\ pc' = "settled"
    /\ UNCHANGED <<variant, apiKey, event, response, call, sent, served>>
    /\ UNCHANGED appVars
    /\ UNCHANGED newsVars

NextClient == CallApi \/ CallDirect

SpecClient == InitClient /\ [][NextClient]_vars

-----------------------------------------------------------------------------
(* src/unnamed/part_003: the App *)

\* two of the languages offered, src/components/URLInputForm.tsx:12-27
Languages == {"English", "Hindi"}

\* the article URLs a user submits
Urls == {"https://one.example/a", "https://two.example/b"}

\* an AnalysisResult as the App sees it: the article it was produced for and
\* the language of its text
Analysis(url, lang) == [t |-> "analysis", src |-> url, lang |-> lang]

TitleOf(analysis) == "Title of " \o analysis.src

\* a catch that puts nothing in error
NoErrorText(err) == Null

\* the catch of handleUrlSubmit, src/unnamed/part_003:73-79: the text put in error
SubmitErrorText(err) ==
    IF err.isError
    THEN "An error occurred: " \o err.message \o ". Please check the URL or try again later."
    ELSE "An unknown error occurred."

\* the catch of handleReconvert, src/unnamed/part_003:120-125
ReconvertErrorText(err) ==
    IF err.isError
    THEN "Failed to translate analysis: " \o err.message \o ". Please try again."
    ELSE "An unknown error occurred during translation."

\* what the service wrappers reject with, src/services/geminiService.ts:25, 37
AnalyzeFailure   == Rewrap("Failed to get analysis from the AI model", Err(UpstreamMessage))
TranslateFailure == Rewrap("Failed to translate the analysis", Err(UpstreamMessage))

\* a lookup that compares the entry's title with the submitted URL
FindByUrlInTitle(h, url) ==
    IF \E i \in 1..Len(h) : h[i].title = url
    THEN CHOOSE i \in 1..Len(h) : h[i].title = url /\ \A j \in 1..(i - 1) : h[j].title # url
    ELSE 0

\* history.find(item => item.url === url) as an index, 0 when there is none
FindByUrl(h, url) ==
    IF \E i \in 1..Len(h) : h[i].url = url
    THEN CHOOSE i \in 1..Len(h) : h[i].url = url /\ \A j \in 1..(i - 1) : h[j].url # url
    ELSE 0

\* history.find(h => h.id === id) as an index, 0 when there is none
FindById(h, id) ==
    IF \E i \in 1..Len(h) : h[i].id = id
    THEN CHOOSE i \in 1..Len(h) : h[i].id = id /\ \A j \in 1..(i - 1) : h[j].id # id
    ELSE 0

\* the new item put at the head of the history as it is
WithNewItemUnfiltered(prevHistory, item) == <<item>> \o prevHistory

\* [newHistoryItem, ...prevHistory.filter(item => item.id !== url)], line 71
WithNewItem(prevHistory, item) ==
    <<item>> \o SelectSeq(prevHistory, LAMBDA x : x.id # item.id)

\* prevHistory.map(item => item.id === activeHistoryId
\*                         ? { ...item, analysis: translatedResult } : item), lines 112-118
WithTranslation(prevHistory, id, translated) ==
    [i \in 1..Len(prevHistory) |->
        IF prevHistory[i].id = id THEN [prevHistory[i] EXCEPT !.analysis = translated]
        ELSE prevHistory[i]]

\* a request is issued, a request settles
With(q, req)    == q (+) SetToBag({req})
Without(q, req) == q (-) SetToBag({req})

InFlight == BagToSet(pending)

ServerIdle ==
    /\ variant = Direct
    /\ apiKey = TRUE
    /\ ai = "null"
    /\ pc = "app"
    /\ event = ApiEvent(Undefined, NoFields)
    /\ replies = <<>>
    /\ response = NoResponse
    /\ trace = Untouched("null")
    /\ served = 0
    /\ instances = 0

\* a HistoryItem as the App stores it, src/types.ts:35-41 and lines 63-69
HistoryItem(url, lang, timestamp) ==
    [id |-> url, url |-> url, title |-> TitleOf(Analysis(url, lang)),
     analysis |-> Analysis(url, lang), timestamp |-> timestamp]

\* what localStorage holds under 'analysisHistory' when the App mounts: nothing,
\* or a list an earlier session saved (lines 37-44), one item per URL, in any
\* order, stamped no later than the mount
StoredHistories ==
    {<<>>}
    \cup { <<HistoryItem(u, "English", t)>> : u \in Urls, t \in 0..MountTime }
    \cup { h \in { <<HistoryItem(u, "English", t), HistoryItem(v, "English", s)>> :
                       u \in Urls, v \in Urls, t \in 0..MountTime, s \in 0..MountTime } :
               h[1].url # h[2].url }

\* the item goes to the end whatever its timestamp
InsertAtEnd(sorted, item) == Append(sorted, item)

\* the item goes behind every item that is at least as new
InsertByTimestamp(sorted, item) ==
    LET ahead == SelectSeq(sorted, LAMBDA x : x.timestamp >= item.timestamp)
        behind == SelectSeq(sorted, LAMBDA x : x.timestamp < item.timestamp)
    IN  ahead \o <<item>> \o behind

\* parsed.sort((a, b) => b.timestamp - a.timestamp), line 28: a stable sort,
\* newest first
RECURSIVE SortNewestFirst(_)
SortNewestFirst(parsed) ==
    IF parsed = <<>> THEN <<>>
    ELSE InsertByTimestamp(SortNewestFirst(SubSeq(parsed, 1, Len(parsed) - 1)),
                           parsed[Len(parsed)])

\* the effect that loads the history on the initial render, lines 21-34
LoadHistory(storedHistory) ==
    IF storedHistory # <<>> THEN SortNewestFirst(storedHistory) ELSE <<>>

InitApp ==
    /\ ServerIdle /\ ClientIdle /\ NewsIdle
    /\ analysisResult = JNull
    /\ isLoading = FALSE
    /\ isReconverting = FALSE
    /\ error = Null
    /\ \E storedHistory \in StoredHistories : history = LoadHistory(storedHistory)
    /\ activeHistoryId = Null
    /\ language = "English"
    /\ pending = EmptyBag
    /\ now = MountTime
    /\ succeeded = {}
    /\ resubmitted = FALSE

notApp == <<variant, apiKey, ai, pc, event, replies, response, trace, served, instances,
           call, result, sent>>

\* handleUrlSubmit up to its first await, lines 46-60. The form's input and
\* button are disabled while isLoading (src/components/URLInputForm.tsx:70, 90).
SubmitUrl(url) ==
    /\ pc = "app"
    /\ ~isLoading
    /\ error' = Null
    /\ activeHistoryId' = url
    /\ LET existing == FindByUrl(history, url)
       IN  IF existing # 0
           THEN /\ analysisResult' = history[existing].analysis
                /\ isLoading' = FALSE
                /\ pending' = pending
           ELSE /\ BagCardinality(pending) < MaxPending
                /\ analysisResult' = JNull
                /\ isLoading' = TRUE
                /\ pending' = With(pending, [kind |-> "analyze", url |-> url, language |-> language])
    /\ UNCHANGED <<isReconverting, history, language, now, succeeded>>
    /\ resubmitted' = (url \in succeeded)
    /\ UNCHANGED notApp
    /\ UNCHANGED newsVars

\* analyzeNewsArticle resolved: lines 60-71 and the finally of line 81
AnalyzeResolved(req) ==
    /\ req.kind = "analyze"
    /\ LET result1 == Analysis(req.url, req.language)
           newHistoryItem ==
               [id |-> req.url, url |-> req.url, title |-> TitleOf(result1),
                analysis |-> result1, timestamp |-> now]
       IN  /\ analysisResult' = result1
           /\ history' = WithNewItem(history, newHistoryItem)
           /\ succeeded' = succeeded \cup {req.url}
    /\ isLoading' = FALSE
    /\ pending' = Without(pending, req)
    /\ UNCHANGED <<isReconverting, error, activeHistoryId, language, now>>
    /\ resubmitted' = FALSE
    /\ UNCHANGED notApp
    /\ UNCHANGED newsVars

\* analyzeNewsArticle rejected: lines 73-82
AnalyzeRejected(req) ==
    /\ req.kind = "analyze"
    /\ error' = SubmitErrorText(AnalyzeFailure)
    /\ activeHistoryId' = Null
    /\ isLoading' = FALSE
    /\ pending' = Without(pending, req)
    /\ UNCHANGED <<analysisResult, isReconverting, history, language, now, succeeded>>
    /\ resubmitted' = FALSE
    /\ UNCHANGED notApp
    /\ UNCHANGED newsVars

\* handleSelectHistoryItem, lines 85-93; the sidebar lists one button per item
\* (src/components/URLInputForm.tsx:163-185)
SelectHistoryItem(id) ==
    /\ pc = "app"
    /\ \E k \in 1..Len(history) : history[k].id = id
    /\ LET item == history[FindById(history, id)]
       IN  /\ isLoading' = FALSE
           /\ error' = Null
           /\ analysisResult' = item.analysis
           /\ activeHistoryId' = item.id
    /\ UNCHANGED <<isReconverting, history, language, pending, now, succeeded>>
    /\ resubmitted' = FALSE
    /\ UNCHANGED notApp
    /\ UNCHANGED newsVars

\* handleClearHistory, lines 95-99; the button shows only while the history is
\* not empty (src/components/URLInputForm.tsx:139)
ClearHistory ==
    /\ pc = "app"
    /\ Len(history) > 0
    /\ history' = <<>>
    /\ analysisResult' = JNull
    /\ activeHistoryId' = Null
    /\ succeeded' = {}
    /\ UNCHANGED <<isLoading, isReconverting, error, language, pending, now>>
    /\ resubmitted' = FALSE
    /\ UNCHANGED notApp
    /\ UNCHANGED newsVars

\* the card is on screen, lines 175-185
CardShown == ~isLoading /\ error = Null /\ analysisResult # JNull

\* handleReconvert up to its await, lines 101-109; the card's select is disabled
\* while isReconverting (src/components/NewsSummaryCard.tsx:133-135)
Reconvert(newLanguage) ==
    /\ pc = "app"
    /\ CardShown
    /\ ~isReconverting
    /\ newLanguage # language
    /\ analysisResult # JNull /\ activeHistoryId # Null
    /\ BagCardinality(pending) < MaxPending
    /\ isReconverting' = TRUE
    /\ error' = Null
    /\ language' = newLanguage
    /\ pending' = With(pending,
                       [kind |-> "translate", analysis |-> analysisResult,
                        activeHistoryId |-> activeHistoryId, newLanguage |-> newLanguage])
    /\ UNCHANGED <<analysisResult, isLoading, history, activeHistoryId, now, succeeded>>
    /\ resubmitted' = FALSE
    /\ UNCHANGED notApp
    /\ UNCHANGED newsVars

\* translateAnalysisResult resolved: lines 109-118 and the finally of line 127
TranslateResolved(req) ==
    /\ req.kind = "translate"
    /\ LET translatedResult == Analysis(req.analysis.src, req.newLanguage)
       IN  /\ analysisResult' = translatedResult
           /\ history' = WithTranslation(history, req.activeHistoryId, translatedResult)
    /\ isReconverting' = FALSE
    /\ pending' = Without(pending, req)
    /\ UNCHANGED <<isLoading, error, activeHistoryId, language, now, succeeded>>
    /\ resubmitted' = FALSE
    /\ UNCHANGED notApp
    /\ UNCHANGED newsVars

\* translateAnalysisResult rejected: lines 120-128
TranslateRejected(req) ==
    /\ req.kind = "translate"
    /\ error' = ReconvertErrorText(TranslateFailure)
    /\ isReconverting' = FALSE
    /\ pending' = Without(pending, req)
    /\ UNCHANGED <<analysisResult, isLoading, history, activeHistoryId, language, now, succeeded>>
    /\ resubmitted' = FALSE
    /\ UNCHANGED notApp
    /\ UNCHANGED newsVars

\* onLanguageChange={setLanguage}, line 170; the form's select is disabled while
\* isLoading (src/components/URLInputForm.tsx:74-77)
LanguageChange(lang) ==
    /\ pc = "app"
    /\ ~isLoading
    /\ lang # language
    /\ language' = lang
    /\ UNCHANGED <<analysisResult, isLoading, isReconverting, error, history, activeHistoryId,
                   pending, now, succeeded>>
    /\ resubmitted' = FALSE
    /\ UNCHANGED notApp
    /\ UNCHANGED newsVars

\* time passes
Tick ==
    /\ pc = "app"
    /\ now < MaxClock
    /\ now' = now + 1
    /\ UNCHANGED <<analysisResult, isLoading, isReconverting, error, history, activeHistoryId,
                   language, pending, succeeded>>
    /\ resubmitted' = FALSE
    /\ UNCHANGED notApp
    /\ UNCHANGED newsVars

Submit == \E url \in Urls : SubmitUrl(url)
Select == \E id \in Urls : SelectHistoryItem(id)

NextApp ==
    \/ Submit
    \/ Select
    \/ ClearHistory
    \/ \E l \in Languages : Reconvert(l)
    \/ \E l \in Languages : LanguageChange(l)
    \/ \E req \in InFlight : AnalyzeResolved(req)
    \/ \E req \in InFlight : AnalyzeRejected(req)
    \/ \E req \in InFlight : TranslateResolved(req)
    \/ \E req \in InFlight : TranslateRejected(req)
    \/ Tick

SpecApp == InitApp /\ [][NextApp]_vars

-----------------------------------------------------------------------------
(* src/unnamed/part_001 (and part_002): the LatestNews component *)

\* what fetchLatestNews of src/services/geminiService.ts:307-355 settles with
\* once its client exists, over every reply of the model
NewsResults ==
    { Settled(fetchLatestNewsDirect("client", TRUE, reply).out) : reply \in ModelReplies }

\* ... and without the key: getAiClient throws before the try of line 310
NewsResultNoKey == Settled(fetchLatestNewsDirect("null", FALSE, NoReply).out)

\* what translateTexts of lines 269-305 settles with for the category names;
\* the replies are those that keep the promised Record<string, string>
CategoryResults ==
    { r \in { Settled(translateTextsDirect("client", TRUE, SampleTexts, reply).out) :
                 reply \in ModelReplies } : r.value.t = "map" }

CategoryResultNoKey == Settled(translateTextsDirect("null", FALSE, SampleTexts, NoReply).out)

\* translatedCategories[activeCategory]?.toLowerCase() || activeCategory.toLowerCase(), line 51
CategoryName(names, category) ==
    LET lower == CASE category = "Political" -> "political"
                   [] category = "International" -> "international"
                   [] category = "Indian" -> "indian"
    IN  IF category \in names.keys /\ names.language # "English"
        THEN lower \o " in " \o names.language
        ELSE lower

\* the array a fetch resolved with, and the call it came from: the sample list
\* of lines 346-352 is the same for every call, a live list is the call's own
Headlines(res, id) ==
    [items |-> res.value.headlines.items,
     source |-> res.value.source,
     id |-> IF res.value.source = "mock" THEN 0 ELSE id]

\* what a fetch returned, as far as the component can show it
Returned(res, id) ==
    IF res.settled = "rejected" \/ res.value.t # "tagged" \/ Len(res.value.headlines.items) = 0
    THEN [items |-> <<>>, source |-> "error", id |-> 0]
    ELSE Headlines(res, id)

InitNews ==
    /\ variant = Direct
    /\ apiKey \in BOOLEAN
    /\ ai = "null"
    /\ pc = "mounting"
    /\ event = ApiEvent(Undefined, NoFields)
    /\ replies = <<>>
    /\ response = NoResponse
    /\ trace = Untouched("null")
    /\ served = 0
    /\ instances = 0
    /\ ClientIdle
    /\ analysisResult = JNull
    /\ isLoading = FALSE
    /\ isReconverting = FALSE
    /\ error = Null
    /\ history = <<>>
    /\ activeHistoryId = Null
    /\ language \in Languages
    /\ pending = EmptyBag
    /\ now = MountTime
    /\ succeeded = {}
    /\ resubmitted = FALSE
    /\ NewsIdle

notNews == <<variant, apiKey, event, replies, response, trace, served, instances,
            call, result, sent,
            analysisResult, isLoading, isReconverting, error, history, activeHistoryId,
            pending, now, succeeded, resubmitted>>

\* the effect of lines 41-68 up to its await, run n times in a row with the
\* category and the names of the render it belongs to
GetNews(n, category, names) ==
    /\ issued + n <= MaxFetches
    /\ newsIsLoading' = TRUE
    /\ newsError' = Null
    /\ isFallback' = FALSE
    /\ fetches' = fetches \cup { [id |-> issued + k, category |-> category, names |-> names] :
                                     k \in 1..n }
    /\ issued' = issued + n
    /\ lastReturned' = [items |-> <<>>, source |-> "pending", id |-> 0]

\* the effect of lines 22-39 up to its await: for English the names are set at
\* once, to a new object, otherwise translateTexts is called
GetTranslations(lang) ==
    IF lang = "English"
    THEN /\ translatedCategories' = EnglishNames
         /\ translating' = translating
    ELSE /\ translatedCategories' = translatedCategories
         /\ translating' = translating \cup {[language |-> lang]}

\* the first render: both effects run; the new names object of line 25 makes
\* the effect of line 41 run a second time
Mount ==
    /\ pc = "mounting"
    /\ pc' = "mounted"
    /\ GetTranslations(language)
    /\ GetNews(IF language = "English" THEN 2 ELSE 1, activeCategory, translatedCategories')
    /\ UNCHANGED <<activeCategory, headlines, language, ai>>
    /\ UNCHANGED notNews

\* onClick={() => setActiveCategory(category)}, line 94: a click on the active
\* category changes no state and runs no effect
SelectCategory(category) ==
    /\ pc = "mounted"
    /\ category # activeCategory
    /\ activeCategory' = category
    /\ GetNews(1, category, translatedCategories)
    /\ UNCHANGED <<headlines, translatedCategories, translating, language, ai, pc>>
    /\ UNCHANGED notNews

\* the App renders LatestNews with another language; the model lets one
\* translateTexts call be in flight at a time and keeps a fetch in reserve for
\* the effect that follows it
LanguageProp(lang) ==
    /\ pc = "mounted"
    /\ lang # language
    /\ language' = lang
    /\ GetTranslations(lang)
    /\ IF lang = "English"
       THEN GetNews(1, activeCategory, translatedCategories')
       ELSE /\ issued < MaxFetches
            /\ translating = {}
            /\ UNCHANGED <<newsIsLoading, newsError, isFallback, fetches, issued, lastReturned>>
    /\ UNCHANGED <<activeCategory, headlines, ai, pc>>
    /\ UNCHANGED notNews

\* translateTexts settled, lines 29-35: the names are set and the effect of
\* line 41 runs again
TranslationsSettled(req) ==
    /\ pc = "mounted"
    /\ \E res \in (IF apiKey THEN CategoryResults ELSE {CategoryResultNoKey}) :
          translatedCategories' =
              IF res.settled = "rejected" THEN EnglishNames
              ELSE [keys |-> res.value.keys, language |-> req.language]
    /\ translating' = translating \ {req}
    /\ GetNews(1, activeCategory, translatedCategories')
    /\ ai' = IF apiKey THEN "client" ELSE ai
    /\ UNCHANGED <<activeCategory, headlines, language, pc>>
    /\ UNCHANGED notNews

\* fetchLatestNews settled: lines 48-64
FetchSettled(f) ==
    /\ pc = "mounted"
    /\ \E res \in (IF apiKey THEN NewsResults ELSE {NewsResultNoKey}) :
          /\ IF res.settled = "rejected" \/ res.value.t # "tagged"
             THEN /\ newsError' = "An error occurred while fetching news."
                  /\ UNCHANGED <<headlines, isFallback>>
             ELSE IF Len(res.value.headlines.items) = 0
             THEN /\ newsError' = "Could not fetch recent " \o CategoryName(f.names, f.category)
                                  \o " news at this time."
                  /\ UNCHANGED <<headlines, isFallback>>
             ELSE /\ headlines' = Headlines(res, f.id)
                  /\ isFallback' = IF res.value.source = "mock" THEN TRUE ELSE isFallback
                  /\ newsError' = newsError
          /\ lastReturned' = IF f.id = issued THEN Returned(res, f.id) ELSE lastReturned
    /\ newsIsLoading' = FALSE
    /\ fetches' = fetches \ {f}
    /\ ai' = IF apiKey THEN "client" ELSE ai
    /\ UNCHANGED <<activeCategory, translatedCategories, translating, issued, language, pc>>
    /\ UNCHANGED notNews

NextNews ==
    \/ Mount
    \/ \E category \in englishCategories : SelectCategory(category)
    \/ \E lang \in Languages : LanguageProp(lang)
    \/ \E req \in translating : TranslationsSettled(req)
    \/ \E f \in fetches : FetchSettled(f)

SpecNews == InitNews /\ [][NextNews]_vars

-----------------------------------------------------------------------------
(* Claims about the handlers *)

Post == event.httpMethod = "POST"
Answered == pc = "done"

\* the error message a response body carries, "" when it carries none
ErrorOf(resp) ==
    IF resp.body.kind = "json" /\ resp.body.value.t = "error" THEN resp.body.value.error ELSE ""

\* C1: every POST is answered, with 200 exactly when the dispatched operation
\* returned without throwing and otherwise with 500 and the message of the
\* error that was thrown; a POST gets no other status.
C1_PostAnswered200Or500 ==
    /\ (pc = "ready" /\ Post) => ENABLED (InvokeFunctions \/ InvokeProxy)
    /\ (Answered /\ Post) =>
          /\ response.statusCode \in {200, 500}
          /\ (response.statusCode = 200) <=> (trace.op # "none" /\ ~trace.out.threw)
          /\ (response.statusCode = 200) => response.body = JsonBody(trace.out.value)
          /\ (response.statusCode = 500 /\ trace.out.err.isError) =>
                response.body = ErrorBody(trace.out.err.message)

\* a POST of malformed JSON was answered 500 with the parser's message
C1_Witness ==
    /\ Answered /\ Post
    /\ event.body.t = "malformed"
    /\ response.statusCode = 500
    /\ ErrorOf(response) = SyntaxMessage

\* C2: a request whose method is not POST is answered 405, its body is not
\* parsed, no operation is dispatched and the external model is not called.
C2_NonPostIs405 ==
    (Answered /\ ~Post) =>
        /\ response.statusCode = 405
        /\ ~trace.parsed
        /\ trace.op = "none"
        /\ trace.out.calls = 0
        /\ replies = <<>>

\* a GET that carries a complete analyze request was answered 405
C2_Witness ==
    /\ Answered
    /\ event.httpMethod = "GET"
    /\ event.body.t = "object"
    /\ event.body.action \in {"analyze", "analyzeNewsArticle"}
    /\ ~MissingAnalyzeParams(IF variant = Proxy THEN PayloadFields(event.body) ELSE event.body.top)
    /\ response.statusCode = 405

\* the fields each of the four requests must carry
RequiredFields(op) ==
    CASE op = "analyze" -> {"articleUrl", "language"}
      [] op = "translate" -> {"analysis", "targetLanguage"}
      [] op = "translateTexts" -> {"texts", "targetLanguage"}
      [] op = "fetchNews" -> {"category"}
      [] OTHER -> {}

\* the operation an action value names in the variant serving the request
OperationNamed(v, action) ==
    IF v = Proxy
    THEN CASE action = "analyzeNewsArticle" -> "analyze"
           [] action = "translateAnalysisResult" -> "translate"
           [] action = "translateTexts" -> "translateTexts"
           [] action = "fetchLatestNews" -> "fetchNews"
           [] OTHER -> "none"
    ELSE IF action \in FunctionActions THEN action ELSE "none"

\* the key is absent from the request or carries a falsy value
LacksField(f, k) ==
    IF k \in {"analysis", "texts"} THEN f[k].t \in {"undefined", "null"}
    ELSE f[k] \in {Undefined, ""}

\* the request names one of the four operations and lacks a field it requires
LacksRequiredField ==
    /\ event.body.t = "object"
    /\ LET f  == IF variant = Proxy THEN PayloadFields(event.body) ELSE event.body.top
           op == OperationNamed(variant, event.body.action)
       IN  \E k \in RequiredFields(op) : LacksField(f, k)

\* C3: a POST that lacks a required field of its action (or carries a falsy
\* value for it) is answered 500 and the invocation issues no model call.
C3_MissingFieldIs500NoCall ==
    (Answered /\ Post /\ LacksRequiredField) =>
        /\ response.statusCode = 500
        /\ trace.out.calls = 0
        /\ replies = <<>>

\* a translateTexts request with its texts but an empty targetLanguage was
\* answered 500
C3_Witness ==
    /\ Answered /\ Post /\ LacksRequiredField
    /\ event.body.action = "translateTexts"
    /\ (IF variant = Proxy THEN PayloadFields(event.body) ELSE event.body.top).texts = SampleTexts
    /\ response.statusCode = 500

\* the text the analysis call of an analyze request resolved with
AnalysisCallMade ==
    /\ trace.op = "analyze"
    /\ Len(replies) = (IF variant = Proxy THEN 2 ELSE 1)
    /\ replies[Len(replies)].kind = "text"

AnalysisOutput == JsonParse(IF variant = Functions
                            THEN StripFences(replies[Len(replies)].text)
                            ELSE replies[Len(replies)].text)

\* C4: an analyze request whose model output lacks a required key of
\* AnalysisResult (articleTitle, neutralSummary, factOnlySummary, eli10Summary,
\* biasAnalysis) is answered 500 with a non-empty error message, never 200.
C4_MissingKeyRejected ==
    (Answered /\ Post /\ AnalysisCallMade
        /\ AnalysisOutput.t = "analysis" /\ ~(AnalysisKeys \subseteq AnalysisOutput.keys)) =>
        /\ response.statusCode = 500
        /\ ErrorOf(response) # ""

\* C5: every response that is not a 200 (a 405 as well as a 500) carries a
\* JSON body { error: <non-empty string> }.
C5_Non200CarriesJsonError ==
    (Answered /\ response.statusCode # 200) =>
        /\ response.body.kind = "json"
        /\ response.body.value.t = "error"
        /\ response.body.value.error # ""

\* the analysis a translate request submitted
SubmittedAnalysis ==
    (IF variant = Proxy THEN PayloadFields(event.body) ELSE event.body.top).analysis

\* C8: a translate request answered 200 returns an AnalysisResult with exactly
\* the keys of the submitted analysis and the submitted tone classification.
C8_TranslationPreservesShape ==
    (Answered /\ trace.op = "translate" /\ response.statusCode = 200) =>
        /\ response.body.value.t = "analysis"
        /\ response.body.value.keys = SubmittedAnalysis.keys
        /\ response.body.value.tone = SubmittedAnalysis.tone

\* C9: a result whose tone classification is none of Positive, Negative,
\* Neutral is not returned with status 200 by analyze or translate.
C9_InvalidToneNotReturned ==
    (Answered /\ trace.op \in {"analyze", "translate"} /\ response.statusCode = 200) =>
        ~ /\ response.body.value.t = "analysis"
          /\ response.body.value.tone # Undefined
          /\ response.body.value.tone \notin Classifications

\* C13: without API_KEY in the environment the function fails at module load:
\* no request reaches the handler, nothing is dispatched and no response (200,
\* 405 or 500) is produced.
C13_NoKeyIsFatalAtStartup ==
    ~apiKey =>
        /\ pc # "done"
        /\ response = NoResponse
        /\ trace.op = "none" /\ ~trace.parsed

\* C14: the lazily initialised client is process-wide and constructed at most
\* once: over any sequence of invocations the process holds a client exactly
\* when it has constructed one, never constructs a second, and without API_KEY
\* a failing getAiClient leaves the handle null.
C14_ClientCreatedAtMostOnce ==
    variant = Proxy =>
        /\ instances <= 1
        /\ (ai = "client") <=> (instances = 1)
        /\ ai \in {"null", "client"}
        /\ ~apiKey => (ai = "null" /\ instances = 0)

\* the process has served a second invocation, which dispatched an operation
\* that called the model, and holds the one client it constructed
C14_Witness ==
    /\ variant = Proxy
    /\ served = 2
    /\ pc = "done"
    /\ trace.op # "none"
    /\ trace.out.calls >= 1
    /\ ai = "client"
    /\ instances = 1

\* the JSON payload inside the text of the model's reply
Payload == replies[1].text.json

\* the invocation ran a fence-stripping operation of src/functions/analyze.ts on
\* a reply whose payload, taken by itself, passes the operation's structure check
FencedReplyHandled ==
    /\ pc = "done"
    /\ variant = Functions
    /\ Len(replies) = 1
    /\ replies[1].kind = "text"
    /\ \/ trace.op = "analyze" /\ StructureCheck(Payload)
       \/ trace.op = "fetchNews" /\ Payload.t = "array" /\ EveryHeadline(Payload.items)

\* C16: whether the leading fence marker and the trailing fence marker are
\* present or absent, each independently of the other, the normalizer parses
\* exactly the JSON payload: the operation succeeds with that payload.
C16_FencesStrippedIndependently ==
    FencedReplyHandled =>
        /\ response.statusCode = 200
        /\ response.body = JsonBody(Payload)

\* a POST was answered by a handler that dispatches on the top-level action
\* (src/functions/analyze.ts, src/unnamed/part_000)
PostHandled == Answered /\ Post /\ variant \in {Functions, Schema}

\* ... and its body parsed to an object
ActionHandled == PostHandled /\ event.body.t \in {"object", "empty"}

\* the action a POST carries, absent when the body is no object at all
ActionOf(body) == IF body.t = "object" THEN body.action ELSE Undefined

\* C19 as stated: any POST whose action is none of the four, a POST without
\* any action included, has no operation invoked and is answered 500 with a
\* message naming the action.
C19_UnknownActionNamedAnyBody ==
    (PostHandled /\ OperationNamed(variant, ActionOf(event.body)) = "none") =>
        /\ trace.op = "none"
        /\ response.statusCode = 500
        /\ ErrorOf(response) =
              "Invalid action specified: "
              \o (IF ActionOf(event.body) = Undefined THEN "undefined" ELSE ActionOf(event.body))

\* C19 amended: for a POST whose body parses to a JSON object, dispatch is a
\* function of the action alone: an action naming one of analyze, translate,
\* translateTexts, fetchNews with its required fields present has exactly that
\* operation invoked, once; any other action value, a missing one included,
\* has no operation invoked and is answered 500 with a message naming the
\* action.
C19_DispatchByActionAlone ==
    ActionHandled =>
        LET body  == BodyObject(event.body)
            named == OperationNamed(variant, body.action)
        IN  /\ (named # "none" /\ \A k \in RequiredFields(named) : ~LacksField(body.top, k)) =>
                    (trace.op = named /\ trace.out.calls <= 1)
            /\ (named = "none") =>
                    /\ trace.op = "none"
                    /\ replies = <<>>
                    /\ response.statusCode = 500
                    /\ ErrorOf(response) =
                          "Invalid action specified: "
                          \o (IF body.action = Undefined THEN "undefined" ELSE body.action)

\* a POST that carries a complete fetchNews parameter set under an action that
\* names no operation was answered 500 without any operation being invoked
C19_Witness ==
    /\ ActionHandled
    /\ event.body.t = "object"
    /\ event.body.action = "bogus"
    /\ ~MissingCategoryParam(event.body.top)
    /\ trace.op = "none"
    /\ response.statusCode = 500

\* the invocation dispatched fetchNews and the model answered with a text
NewsFetched ==
    /\ Answered
    /\ trace.op = "fetchNews"
    /\ Len(replies) = 1
    /\ replies[1].kind = "text"

\* what the operation parsed out of the model's text
ParsedNews == JsonParse(StripFences(replies[1].text))

\* an array in which every element has a truthy title, source and url
CompleteHeadlines(j) ==
    /\ j.t = "array"
    /\ \A i \in 1..Len(j.items) : j.items[i] = [title |-> TRUE, source |-> TRUE, url |-> TRUE]

\* the headlines a 200 response to fetchNews carries
ReturnedNews ==
    IF response.body.value.t = "tagged" THEN response.body.value.headlines
    ELSE response.body.value

\* C20: fetchNews is answered 200 only if the parsed model output is an array
\* whose every element has a truthy title, source and url; any other parsed
\* value is answered 500.
C20_OnlyCompleteHeadlinesReturned ==
    NewsFetched =>
        /\ response.statusCode \in {200, 500}
        /\ (response.statusCode = 200) <=> CompleteHeadlines(ParsedNews)
        /\ (response.statusCode = 200) => (ReturnedNews = ParsedNews)

\* fetchNews parsed an array of two headlines, the second without a url, and
\* was answered 500
C20_Witness ==
    /\ NewsFetched
    /\ ParsedNews.t = "array"
    /\ Len(ParsedNews.items) = 2
    /\ ParsedNews.items[1] = [title |-> TRUE, source |-> TRUE, url |-> TRUE]
    /\ ParsedNews.items[2] = [title |-> TRUE, source |-> TRUE, url |-> FALSE]
    /\ response.statusCode = 500

\* the proxy dispatched its two-step analyze and the content-extraction call
\* returned (with a text or without one)
ContentExtracted ==
    /\ Answered
    /\ variant = Proxy
    /\ trace.op = "analyze"
    /\ Len(replies) >= 1
    /\ replies[1].kind \in {"content", "notext"}

\* the trimmed length of the extracted text, 0 when there is none
ExtractedLength == IF replies[1].kind = "content" THEN replies[1].len ELSE 0

\* C21: in the two-step analyze the analysis call is issued only after the
\* content-extraction call returned a text of trimmed length at least 150:
\* with less the operation fails with the insufficient-content error and no
\* second model call is made; exactly 150 goes on to the analysis call.
C21_AnalysisOnlyAfterSufficientContent ==
    /\ (Answered /\ variant = Proxy /\ trace.op = "analyze" /\ Len(replies) = 2) =>
            (replies[1].kind = "content" /\ replies[1].len >= MinContentLength)
    /\ ContentExtracted =>
            IF ExtractedLength < MinContentLength
            THEN /\ Len(replies) = 1
                 /\ trace.out.calls = 1
                 /\ response.statusCode = 500
                 /\ ErrorOf(response) = InsufficientMessage
            ELSE Len(replies) = 2 /\ trace.out.calls = 2

\* the content call returned exactly 150 characters and the analysis call was made
C21_Witness ==
    /\ ContentExtracted
    /\ ExtractedLength = MinContentLength
    /\ Len(replies) = 2
    /\ replies[2].kind = "text"
    /\ response.statusCode = 200

-----------------------------------------------------------------------------
(* Claims about the service wrappers *)

\* the headline fetch reached the model and its output parsed to an empty array
ZeroHeadlines ==
    /\ call.op = "fetchLatestNews"
    /\ Len(replies) = 1
    /\ replies[1].kind = "text"
    /\ JsonParse(StripFences(replies[1].text)) = EmptyArray

\* the headlines a settled fetchLatestNews yielded
YieldedHeadlines == IF result.value.t = "tagged" THEN result.value.headlines ELSE result.value

\* C10: a headline fetch with zero results makes fetchLatestNews yield the
\* hardcoded mock headlines (tagged 'mock' where the variant tags its result),
\* not an empty list.
C10_ZeroResultsYieldMock ==
    (pc = "settled" /\ ZeroHeadlines) =>
        /\ result.settled = "resolved"
        /\ YieldedHeadlines = MockNews
        /\ (result.value.t = "tagged") => (result.value.source = "mock")

\* the model's reply to a headline fetch parsed to an array of complete headlines
LiveHeadlines(reply) ==
    /\ reply.kind = "text"
    /\ JsonParse(StripFences(reply.text)).t = "array"
    /\ EveryHeadline(JsonParse(StripFences(reply.text)).items)

\* a settled headline fetch that failed: no 200 from the handler (network
\* error, gateway page, 500), or, in the direct variant, no client or a reply
\* that is no array of complete headlines
HeadlineFetchFailed ==
    /\ pc = "settled"
    /\ call.op = "fetchLatestNews"
    /\ IF call.service = "api" THEN response.statusCode # 200
       ELSE ~apiKey \/ (Len(replies) = 1 /\ ~LiveHeadlines(replies[1]))

\* C11: whenever a headline fetch fails, fetchLatestNews resolves with the
\* non-empty hardcoded headline list, and LatestNews ends the fetch with
\* headlines and no error message.
C11_FailedFetchYieldsMock ==
    HeadlineFetchFailed =>
        /\ result.settled = "resolved"
        /\ YieldedHeadlines = MockNews
        /\ getNews(result).error = Null
        /\ Len(getNews(result).headlines) > 0

\* C12: nothing is retried: an invocation of the handler of
\* src/functions/analyze.ts issues at most one model call, none after a call
\* that failed or whose output was rejected, and a service call through
\* apiCall sends exactly one HTTP request, whatever the outcome.
C12_NothingRetried ==
    /\ (pc \in {"done", "settled"} /\ variant = Functions) =>
            /\ trace.out.calls <= 1
            /\ Len(replies) = trace.out.calls
    /\ (pc = "settled" /\ call.service = "api") => Len(sent) = 1

\* a service call went through the handler of src/functions/analyze.ts, the
\* model call failed or its output was rejected, and the call was rejected
C12_Witness ==
    /\ pc = "settled"
    /\ call.service = "api"
    /\ variant = Functions
    /\ call.op \in {"analyzeNewsArticle", "translateAnalysisResult"}
    /\ Len(replies) = 1
    /\ trace.out.threw
    /\ result.settled = "rejected"
    /\ Len(sent) = 1

\* a settled translateTexts whose translation could not be obtained: no 200
\* from the handler, or, in the direct variant, no client, no text or a text
\* that does not parse
TranslationNotObtained ==
    /\ pc = "settled"
    /\ call.op = "translateTexts"
    /\ IF call.service = "api" THEN response.statusCode # 200
       ELSE \/ ~apiKey
            \/ /\ Len(replies) = 1
               /\ (replies[1].kind # "text" \/ JsonParse(replies[1].text).t = "invalid")

\* C17: the client's translateTexts never rejects, and when the translation
\* cannot be obtained it resolves with the identity map over its input texts.
C17_TranslateTextsNeverRejects ==
    (pc = "settled" /\ call.op = "translateTexts") =>
        /\ result.settled = "resolved"
        /\ TranslationNotObtained => result.value = IdentityMap(SampleTexts)

\* the handler answered an analyze or translate request of the client with a
\* status other than 200 and the body { error: m }
HandlerRefused ==
    /\ pc = "settled"
    /\ call.service = "api"
    /\ call.op \in {"analyzeNewsArticle", "translateAnalysisResult"}
    /\ response.statusCode \notin {0, 200}
    /\ response.body.kind = "json"
    /\ response.body.value.t = "error"

\* the m of the body { error: m }
RefusalText == response.body.value.error

\* the text the App puts in its error state (and hands to ErrorAlert) when the
\* service call is rejected
ShownError ==
    IF call.op = "analyzeNewsArticle" THEN SubmitErrorText(result.err)
    ELSE ReconvertErrorText(result.err)

\* C18 as stated: when the handler refuses an analyze or translate request
\* with { error: m }, the error text shown to the user is m verbatim.
C18_ErrorShownVerbatim ==
    HandlerRefused => (result.settled = "rejected" /\ ShownError = RefusalText)

\* C18 amended: the error text shown carries m unchanged inside the fixed text
\* the service wrapper and the App put around it.
C18_ErrorShownWrapped ==
    HandlerRefused =>
        /\ result.settled = "rejected"
        /\ RefusalText # ""
        /\ ShownError =
              IF call.op = "analyzeNewsArticle"
              THEN "An error occurred: Failed to get analysis from the AI model: " \o RefusalText
                   \o ". Please check the URL or try again later."
              ELSE "Failed to translate analysis: Failed to translate the analysis: "
                   \o RefusalText \o ". Please try again."

\* the handler refused a translate request with the model's own failure text
C18_Witness ==
    /\ HandlerRefused
    /\ call.op = "translateAnalysisResult"
    /\ response.statusCode = 500
    /\ RefusalText = UpstreamMessage
    /\ result.settled = "rejected"

-----------------------------------------------------------------------------
(* Claims about the App *)

\* the analysis stored in the history for url
StoredFor(url) == history[CHOOSE k \in 1..Len(history) : history[k].url = url].analysis

\* the analyze requests in flight, with their multiplicities
AnalyzeInFlight == [r \in {x \in InFlight : x.kind = "analyze"} |-> pending[r]]

\* C6: once a submit of a URL has completed successfully and no clear-history
\* followed, every later submit of that URL shows the analysis stored in the
\* history, ends with isLoading false and issues no analyzeNewsArticle request,
\* whatever language is selected.
C6_ResubmitServedFromHistory ==
    [][\A url \in Urls :
          (SubmitUrl(url) /\ url \in succeeded) =>
              /\ \E k \in 1..Len(history) : history[k].url = url
              /\ analysisResult' = StoredFor(url)
              /\ isLoading' = FALSE
              /\ pending' = pending]_vars

\* a successfully analysed URL was just submitted again, under a language other
\* than the one its stored analysis is in
C6_Witness ==
    /\ resubmitted
    /\ activeHistoryId \in succeeded
    /\ analysisResult # JNull
    /\ analysisResult.lang # language

\* C7: at most one analyze request issued by handleUrlSubmit is in flight at any
\* time, over every interleaving of submit, select-history-item, clear-history
\* and reconvert with the completion of pending requests.
C7_AtMostOneAnalyzeInFlight == BagCardinality(AnalyzeInFlight) <= 1

\* C15: starting from an empty history, after any sequence of submit, select,
\* clear and reconvert actions and completions of their requests, the history
\* holds at most one entry per URL and every entry has id = url.
C15_OneEntryPerUrl ==
    /\ \A i \in 1..Len(history) : history[i].id = history[i].url
    /\ \A i, j \in 1..Len(history) : history[i].url = history[j].url => i = j

\* both URLs are in the history, one of them translated by a reconvert, while
\* an analyze request for a URL the history already holds is still in flight
C15_Witness ==
    /\ Len(history) = 2
    /\ \E i \in 1..Len(history) : history[i].analysis.lang = "Hindi"
    /\ \E req \in InFlight : req.kind = "analyze" /\ FindByUrl(history, req.url) # 0

\* the timestamps of the history never increase from the head to the end
NewestFirst(h) == \A i \in 1..Len(h) : \A j \in i..Len(h) : h[i].timestamp >= h[j].timestamp

\* an analyze request left the queue and the history changed: its URL was
\* analysed and stored
Stored(req) == req.kind = "analyze" /\ pending' = Without(pending, req) /\ history' # history

\* a translate request left the queue
Translated(req) == req.kind = "translate" /\ pending' = Without(pending, req)

\* the two histories hold the same URLs with the same timestamps at the same
\* positions
SameOrder(h, g) ==
    /\ Len(h) = Len(g)
    /\ \A i \in 1..Len(h) : h[i].url = g[i].url /\ h[i].timestamp = g[i].timestamp

\* C22: after the initial load and after any sequence of submissions,
\* selections and reconversions the timestamps of the history never increase
\* from index 0 upward; the entry of a newly analysed URL is at the head; a
\* reconvert changes neither the position nor the timestamp of any entry.
C22_HistoryNewestFirst ==
    /\ [](pc = "app" => NewestFirst(history))
    /\ [][\A req \in InFlight :
            /\ Stored(req) => (history'[1].url = req.url /\ history'[1].timestamp = now)
            /\ Translated(req) => SameOrder(history, history')]_vars

\* an item stored before the mount was loaded and reconverted, and a URL
\* analysed after the mount is at the head
C22_Witness ==
    /\ pc = "app"
    /\ Len(history) = 2
    /\ history[1].timestamp > MountTime
    /\ history[2].timestamp < MountTime
    /\ history[2].analysis.lang = "Hindi"

\* no analyze or translate request is pending
Quiet == pc = "app" /\ pending = EmptyBag

\* C23: whenever no request is in flight and both analysisResult and
\* activeHistoryId are non-null, the history contains an entry with id
\* activeHistoryId and analysisResult is that entry's analysis.
C23_ShownAnalysisIsActiveEntry ==
    (Quiet /\ analysisResult # JNull /\ activeHistoryId # Null) =>
        \E i \in 1..Len(history) :
            history[i].id = activeHistoryId /\ history[i].analysis = analysisResult

\* C24: a reconvert only ever replaces the analysis of the history entry of
\* the article whose analysis was sent for translation: no history entry for
\* URL v comes to hold an analysis, or a translation of an analysis, that was
\* produced for a different URL u.
C24_EntryHoldsOwnAnalysis ==
    pc = "app" => \A i \in 1..Len(history) : history[i].analysis.src = history[i].url

\* C27: whenever the App displays an analysis and no request is in flight,
\* that analysis is in the currently selected language.
C27_ShownInSelectedLanguage ==
    (Quiet /\ CardShown) => analysisResult.lang = language

\* the URL has an entry in the history: a submit of it is served from there
Cached(h, url) == \E i \in 1..Len(h) : h[i].url = url

-----------------------------------------------------------------------------
(* Claims about LatestNews *)

\* every issued fetch has settled
NewsQuiet == pc = "mounted" /\ fetches = {}

\* C25: once every issued headline fetch has settled and no error is set, the
\* displayed headlines are the ones returned by the most recently issued
\* fetch, the one for the active category; and isLoading is never false while
\* a fetch for the active category is in flight.
C25_LatestFetchShown ==
    /\ (NewsQuiet /\ newsError = Null) => headlines = lastReturned
    /\ (pc = "mounted" /\ \E f \in fetches : f.category = activeCategory) => newsIsLoading

\* headlines are on screen, lines 124-150
HeadlinesShown == ~newsIsLoading /\ newsError = Null /\ Len(headlines.items) > 0

\* C26: when no fetch is in flight, isFallback is true if and only if the
\* headlines on display came from the mock fallback; it is never true while
\* live headlines are displayed.
C26_FallbackFlagMatchesHeadlines ==
    (NewsQuiet /\ HeadlinesShown) => (isFallback <=> headlines.source = "mock")

=============================================================================
